---- MODULE Spec2Model ----
(***************************************************************************)
(* Mastermind (src/mastermind.py): the guess-scoring algorithm             *)
(* Guess.calcHints / Guess.isCorrect and the round loop                    *)
(* Mastermind.playRound with its input loop Mastermind.getPlayerGuess.     *)
(*                                                                         *)
(* A Peg is modelled by its colorName, the only field Peg.__eq__ reads.    *)
(* A hint object is modelled by its class name.  Python lists are          *)
(* sequences; Python index k is index k+1 here.  A text line is a          *)
(* sequence of one-character strings.                                      *)
(*                                                                         *)
(* The specifications:                                                     *)
(*   SpecScore  one TargetPegs and one Guess; the guess is scored once     *)
(*              (every target and every guess of N pegs over the first     *)
(*              NumColours colours);                                       *)
(*   Spec       a Mastermind game: construction, playRound, the prompt     *)
(*              loop, and playRound driven again on a finished game;       *)
(*   SpecFour   the same game with a player who answers every prompt,      *)
(*              sooner or later, with a guess of N peg letters, and        *)
(*              never types a guess of another length.                     *)
(* The three specifications share the variables.                           *)
(***************************************************************************)
EXTENDS Integers, Sequences, FiniteSets

VARIABLES
    targetPegs,    \* TargetPegs.pegs: the secret
    revealPegs,    \* TargetPegs.revealPegs
    guesses,       \* Mastermind.guesses: list of Guess (number, pegs, hints)
    isDone,        \* Mastermind.isDone
    currGuessNum,  \* playRound's local currGuessNum (0: playRound never entered)
    userInput,     \* getPlayerGuess's local userInput, after strip().upper()
    message,       \* the verdict playRound printed last ("" : none yet)
    raised,        \* the exception that left playRound ("None": none)
    hintFor,       \* for each hint of the guess scored last: the guess index that got
                   \* it and the target index it took
    board,         \* what print(self) showed last (NoBoard: nothing printed yet)
    pc             \* where the program is

vars == <<targetPegs, revealPegs, guesses, isDone, currGuessNum, userInput,
          message, raised, hintFor, board, pc>>

-----------------------------------------------------------------------------
(* Program constants and model bounds *)

\* range(4) of TargetPegs.__init__, and the length of targetTaken / guessIsUsed
N == 4

\* Mastermind.totalGuesses
totalGuesses == 12

\* how many of the six colours of pegLetters the targets and guesses of
\* SpecScore are drawn from
NumColours == 4

\* TargetPegs.getRandomPeg: the letters a random peg is drawn from
pegLetters == <<"R", "U", "G", "Y", "B", "W">>

None == "None"

RightColorRightPlace == "RightColorRightPlace"
RightColorWrongPlace == "RightColorWrongPlace"

WonMessage == "You Won!!!!"
LostMessage == "Too bad -- Try again"

-----------------------------------------------------------------------------
(* Peg *)

\* Peg.getPeg: the peg (its colorName) of a letter, None for any other character
getPeg(pegChar) ==
    CASE pegChar = "R" -> "Red"
      [] pegChar = "U" -> "Blue"
      [] pegChar = "G" -> "Green"
      [] pegChar = "B" -> "Black"
      [] pegChar = "W" -> "White"
      [] pegChar = "Y" -> "Yellow"
      [] OTHER -> None

\* mutant: pegs compared as objects (no __eq__): two distinct pegs are never equal
PegEqIdentity(a, b) == FALSE

\* mutant: pegs compared by symbol, which every peg shares
PegEqSymbol(a, b) == TRUE

\* Peg.__eq__
PegEq(a, b) == a = b

-----------------------------------------------------------------------------
(* Guess *)

\* Guess.__init__
NewGuess(pegs, number) == [number |-> number, pegs |-> pegs, hints |-> <<>>]

\* Guess.setPegs
setPegs(guess, pegs) == [guess EXCEPT !.pegs = pegs]

\* does list[i] exist (otherwise Python raises IndexError)
HasIndex(list, i) == i \in 1..Len(list)

\* the locals of calcHints as it starts, on the hints the guess already has
StartHints(hints) ==
    [hints       |-> hints,
     hintFor     |-> <<>>,
     targetTaken |-> [k \in 1..N |-> FALSE],
     guessIsUsed |-> [k \in 1..N |-> FALSE],
     err         |-> FALSE]

IndexError(st) == [st EXCEPT !.err = TRUE]

\* mutant: the exact pass forgets to mark the target peg as taken
TakeExactKeepTarget(st, i) ==
    LET st1 == [st EXCEPT !.hints = Append(@, RightColorRightPlace),
                          !.hintFor = Append(@, [guess |-> i, target |-> i])]
    IN  IF ~HasIndex(st.guessIsUsed, i) THEN IndexError(st1)
        ELSE [st1 EXCEPT !.guessIsUsed[i] = TRUE]

\* calcHints, the body of the exact-match test: append the hint, then mark
\* both sides (targetTaken[i] raises IndexError beyond its four entries)
TakeExact(st, i) ==
    LET st1 == [st EXCEPT !.hints = Append(@, RightColorRightPlace),
                          !.hintFor = Append(@, [guess |-> i, target |-> i])]
    IN  IF ~HasIndex(st.targetTaken, i) THEN IndexError(st1)
        ELSE [st1 EXCEPT !.targetTaken[i] = TRUE, !.guessIsUsed[i] = TRUE]

\* mutant: the colour pass forgets to mark the target peg as taken
TakeColourNoMark(st, i, j) ==
    [st EXCEPT !.hints = Append(@, RightColorWrongPlace),
               !.hintFor = Append(@, [guess |-> i, target |-> j])]

\* calcHints, the body of the colour-match test (the break is FirstFit's)
TakeColour(st, i, j) ==
    [st EXCEPT !.hints = Append(@, RightColorWrongPlace),
               !.hintFor = Append(@, [guess |-> i, target |-> j]),
               !.targetTaken[j] = TRUE]

\* calcHints, first loop: right colour, right location
RECURSIVE ExactPass(_, _, _, _)
ExactPass(pegs, target, i, st) ==
    IF st.err \/ i > Len(pegs) THEN st
    ELSE IF ~HasIndex(target, i) THEN IndexError(st)
    ELSE IF PegEq(pegs[i], target[i])
         THEN ExactPass(pegs, target, i + 1, TakeExact(st, i))
         ELSE ExactPass(pegs, target, i + 1, st)

\* mutant: every target peg of the colour gives a hint (no consumed marks, no break)
RECURSIVE NaiveScan(_, _, _, _, _)
NaiveScan(pegs, target, i, j, st) ==
    IF st.err \/ j > Len(pegs) THEN st
    ELSE IF ~HasIndex(target, j) THEN IndexError(st)
    ELSE IF PegEq(pegs[i], target[j])
         THEN NaiveScan(pegs, target, i, j + 1, TakeColourNoMark(st, i, j))
         ELSE NaiveScan(pegs, target, i, j + 1, st)

\* mutant: the inner loop looks only at the target pegs from the guess peg's
\* own position on
RECURSIVE FirstFitFromHere(_, _, _, _, _)
FirstFitFromHere(pegs, target, i, j, st) ==
    LET from == IF j < i THEN i ELSE j
    IN  IF from > Len(pegs) THEN st
        ELSE IF ~HasIndex(st.targetTaken, from) THEN IndexError(st)
        ELSE IF st.targetTaken[from] THEN FirstFitFromHere(pegs, target, i, from + 1, st)
        ELSE IF ~HasIndex(target, from) THEN IndexError(st)
        ELSE IF PegEq(pegs[i], target[from]) THEN TakeColour(st, i, from)
        ELSE FirstFitFromHere(pegs, target, i, from + 1, st)

\* calcHints, inner loop of the second loop: the first target peg not taken
\* that has the colour of guess peg i; j runs over range(len(self.pegs))
RECURSIVE FirstFit(_, _, _, _, _)
FirstFit(pegs, target, i, j, st) ==
    IF j > Len(pegs) THEN st
    ELSE IF ~HasIndex(st.targetTaken, j) THEN IndexError(st)
    ELSE IF st.targetTaken[j] THEN FirstFit(pegs, target, i, j + 1, st)
    ELSE IF ~HasIndex(target, j) THEN IndexError(st)
    ELSE IF PegEq(pegs[i], target[j]) THEN TakeColour(st, i, j)
    ELSE FirstFit(pegs, target, i, j + 1, st)

\* mutant: the second loop starts at the second guess peg, whatever i it is given
RECURSIVE ColourPassFromSecond(_, _, _, _)
ColourPassFromSecond(pegs, target, i, st) ==
    LET from == IF i < 2 THEN 2 ELSE i
    IN  IF st.err \/ from > Len(pegs) THEN st
        ELSE IF ~HasIndex(st.guessIsUsed, from) THEN IndexError(st)
        ELSE IF st.guessIsUsed[from] THEN ColourPassFromSecond(pegs, target, from + 1, st)
        ELSE ColourPassFromSecond(pegs, target, from + 1, FirstFit(pegs, target, from, 1, st))

\* calcHints, second loop: remaining colours, wrong location
RECURSIVE ColourPass(_, _, _, _)
ColourPass(pegs, target, i, st) ==
    IF st.err \/ i > Len(pegs) THEN st
    ELSE IF ~HasIndex(st.guessIsUsed, i) THEN IndexError(st)
    ELSE IF st.guessIsUsed[i] THEN ColourPass(pegs, target, i + 1, st)
    ELSE ColourPass(pegs, target, i + 1, FirstFit(pegs, target, i, 1, st))

\* mutant: the target pegs that were taken are blanked in the target's own list
calcHintsConsuming(guess, target) ==
    LET p1 == ExactPass(guess.pegs, target, 1, StartHints(guess.hints))
        p2 == IF p1.err THEN p1 ELSE ColourPass(guess.pegs, target, 1, p1)
    IN  [guess   |-> [guess EXCEPT !.hints = p2.hints],
         target  |-> [k \in 1..Len(target) |->
                        IF HasIndex(p2.targetTaken, k) /\ p2.targetTaken[k]
                        THEN None ELSE target[k]],
         hintFor |-> p2.hintFor,
         err     |-> p2.err]

\* Guess.calcHints: the guess with its hints appended, the target's list of
\* pegs (calcHints works on the list itself, not on a copy) as it leaves it,
\* whether IndexError was raised (the hints appended before it stay), and who
\* got each hint
calcHints(guess, target) ==
    LET p1 == ExactPass(guess.pegs, target, 1, StartHints(guess.hints))
        p2 == IF p1.err THEN p1 ELSE ColourPass(guess.pegs, target, 1, p1)
    IN  [guess   |-> [guess EXCEPT !.hints = p2.hints],
         target  |-> target,
         hintFor |-> p2.hintFor,
         err     |-> p2.err]

\* Guess.isCorrect
isCorrect(guess) ==
    IF Len(guess.hints) # Len(guess.pegs) THEN FALSE
    ELSE \A k \in 1..Len(guess.hints) : guess.hints[k] # RightColorWrongPlace

-----------------------------------------------------------------------------
(* Rendering *)

\* Peg.symbol and HINT_SYMBOL
PegSymbol == "u2B24"
HintSymbol == "u25C6"

SecretPlaceholder == "-SECRET-"

\* the colour code in front of a peg's symbol (termUnicode of the peg classes)
PegFore(peg) ==
    CASE peg = "Red" -> "Fore.RED"
      [] peg = "Blue" -> "Fore.BLUE"
      [] peg = "Green" -> "Fore.GREEN"
      [] peg = "Yellow" -> "Fore.YELLOW"
      [] peg = "Black" -> "Fore.BLACK"
      [] peg = "White" -> "Fore.WHITE"
      [] OTHER -> "None"

\* the colour code in front of a hint's symbol
HintFore(hint) == IF hint = RightColorWrongPlace THEN "Fore.WHITE" ELSE "Fore.BLACK"

\* str(peg) + " " for every peg of the list
RECURSIVE PegsStr(_)
PegsStr(pegs) ==
    IF pegs = <<>> THEN <<>>
    ELSE <<PegFore(Head(pegs)), PegSymbol, " ">> \o PegsStr(Tail(pegs))

\* str(hint) + " " for every hint of the list
RECURSIVE HintsStr(_)
HintsStr(hints) ==
    IF hints = <<>> THEN <<>>
    ELSE <<HintFore(Head(hints)), HintSymbol, " ">> \o HintsStr(Tail(hints))

\* mutant: the secret is rendered whatever the flag says
TargetStrAlways(reveal, pegs) == PegsStr(pegs) \o <<"  |", "Fore.WHITE">>

\* TargetPegs.__str__
TargetStr(reveal, pegs) ==
    (IF reveal THEN PegsStr(pegs) ELSE <<SecretPlaceholder>>) \o <<"  |", "Fore.WHITE">>

\* Guess.__str__: the number, the pegs (eight blanks for none), the hints
GuessStr(guess) ==
    [number |-> guess.number,
     pegs   |-> (IF Len(guess.pegs) > 0 THEN PegsStr(guess.pegs) ELSE <<"        ">>)
                  \o <<"Fore.WHITE", "  |  ">>,
     hints  |-> HintsStr(guess.hints) \o <<"Fore.WHITE">>]

\* Mastermind.__str__: the secret's row between two rules, then the guesses
BoardStr(reveal, target, list) ==
    [secret |-> <<"   |  ">> \o TargetStr(reveal, target),
     rows   |-> [k \in 1..Len(list) |-> GuessStr(list[k])]]

\* nothing has been printed
NoBoard == [secret |-> <<>>, rows |-> <<>>]

-----------------------------------------------------------------------------
(* TargetPegs *)

\* the colours targets and guesses of SpecScore are drawn from
LetterIndexes == 1..(IF NumColours < Len(pegLetters) THEN NumColours ELSE Len(pegLetters))

\* TargetPegs.getRandomPeg
RandomPegs == {getPeg(pegLetters[k]) : k \in LetterIndexes}

\* TargetPegs.__init__ without pegs: N random pegs, repeats allowed
RandomTargets == [1..N -> RandomPegs]

-----------------------------------------------------------------------------
(* Reading a guess *)

\* str.upper on the characters the model types
Upper(ch) ==
    CASE ch = "r" -> "R"
      [] ch = "u" -> "U"
      [] ch = "g" -> "G"
      [] ch = "y" -> "Y"
      [] ch = "s" -> "S"
      [] ch = "h" -> "H"
      [] ch = "o" -> "O"
      [] ch = "w" -> "W"
      [] OTHER -> ch

\* str.strip: drop the blanks at both ends
RECURSIVE Strip(_)
Strip(line) ==
    IF line = <<>> THEN line
    ELSE IF Head(line) = " " THEN Strip(Tail(line))
    ELSE IF line[Len(line)] = " " THEN Strip(SubSeq(line, 1, Len(line) - 1))
    ELSE line

\* input(...).strip().upper()
ReadInput(raw) == LET t == Strip(raw) IN [k \in 1..Len(t) |-> Upper(t[k])]

SHOW == <<"S", "H", "O", "W">>

\* mutant: a character that is no peg letter is skipped (continue for return None)
getPegsFromGuessSkip(line) ==
    LET RECURSIVE Known(_)
        Known(rest) ==
            IF rest = <<>> THEN <<>>
            ELSE IF getPeg(Head(rest)) = None THEN Known(Tail(rest))
            ELSE <<getPeg(Head(rest))>> \o Known(Tail(rest))
    IN  [isNone |-> FALSE, pegs |-> Known(line)]

\* Mastermind.getPegsFromGuess: the pegs of the line, or None at the first
\* character that is no peg letter
getPegsFromGuess(line) ==
    IF \E k \in 1..Len(line) : getPeg(line[k]) = None
    THEN [isNone |-> TRUE, pegs |-> <<>>]
    ELSE [isNone |-> FALSE, pegs |-> [k \in 1..Len(line) |-> getPeg(line[k])]]

\* mutant: the prompt loop runs while newPegs is None, so [] leaves it
TruthyNotNone(parsed) == ~parsed.isNone

\* Python truth of getPegsFromGuess's result: None and [] are false
Truthy(parsed) == ~parsed.isNone /\ parsed.pegs # <<>>

-----------------------------------------------------------------------------
(* SpecScore: one target, one guess, scored once *)

\* the lines of N peg letters over the colours of SpecScore
ScoreLines == [1..N -> {pegLetters[k] : k \in LetterIndexes}]

InitScore ==
    /\ targetPegs \in RandomTargets
    /\ revealPegs = FALSE
    /\ guesses = <<NewGuess(<<>>, 0)>>
    /\ isDone = FALSE
    /\ currGuessNum = 0
    /\ userInput = <<>>
    /\ message = ""
    /\ raised = "None"
    /\ hintFor = <<>>
    /\ board = NoBoard
    /\ pc = "unit"

\* Guess.setPegs, then Guess.calcHints against the target
ScoreGuess(line) ==
    /\ pc = "unit"
    /\ LET parsed == getPegsFromGuess(line)
           r == calcHints(setPegs(guesses[1], parsed.pegs), targetPegs)
       IN  /\ Truthy(parsed)
           /\ guesses' = <<r.guess>>
           /\ targetPegs' = r.target
           /\ hintFor' = r.hintFor
           /\ raised' = IF r.err THEN "IndexError" ELSE "None"
    /\ userInput' = line
    /\ pc' = "scored"
    /\ UNCHANGED <<revealPegs, isDone, currGuessNum, message, board>>

NextScore == \E line \in ScoreLines : ScoreGuess(line)

SpecScore == InitScore /\ [][NextScore]_vars

-----------------------------------------------------------------------------
(* Spec: a game *)

\* the secrets the games of the model are played against
RoundTargets ==
    {getPegsFromGuess(line).pegs : line \in {<<"R", "U", "G", "Y">>, <<"U", "R", "Y", "G">>}}

\* the lines the player types
RawInputs ==
    { <<"R", "U", "G", "Y">>,
      <<"u", "r", "y", "g">>,
      <<"R">>,
      <<"R", "U", "G", "Y", "B">>,
      <<>>,
      <<" ">>,
      <<" ", "s", "h", "o", "w">>,
      <<"R", "X", "G", "Y">> }

\* Mastermind.__init__: the secret, and totalGuesses empty guesses numbered downwards
Init ==
    /\ targetPegs \in RoundTargets
    /\ revealPegs = FALSE
    /\ guesses = [k \in 1..totalGuesses |-> NewGuess(<<>>, totalGuesses - (k - 1))]
    /\ isDone = FALSE
    /\ currGuessNum = 0
    /\ userInput = <<>>
    /\ message = ""
    /\ raised = "None"
    /\ hintFor = <<>>
    /\ board = NoBoard
    /\ pc = "constructed"

\* mutant: the loop body runs once before isDone is looked at
LoopGuardAlways(done) == TRUE

\* playRound: while not self.isDone
LoopGuard(done) == ~done

\* mutant: the slot is taken from the front of the list (guesses[currGuessNum - 1])
SlotIndexFront(n) == n

\* playRound: self.guesses[-1 * currGuessNum], as an index from the front
SlotIndex(n) == Len(guesses) - n + 1

\* mutant: the budget test is one guess late
OutOfGuessesLate(n) == n > totalGuesses + 1

\* playRound: elif currGuessNum > self.totalGuesses
OutOfGuesses(n) == n > totalGuesses

\* mutant: the budget is looked at before the guess
VerdictBudgetFirst(correct, n) ==
    IF OutOfGuesses(n) THEN "lost" ELSE IF correct THEN "won" ELSE "continue"

\* playRound: the if / elif / else after a guess is scored, n the advanced currGuessNum
Verdict(correct, n) ==
    IF correct THEN "won" ELSE IF OutOfGuesses(n) THEN "lost" ELSE "continue"

\* mutant: any line but SHOW hides the secret again (setHidePegs)
ShowCommandOrHide(line, reveal) == line = SHOW

\* getPlayerGuess: if userInput == "SHOW": self.targetPegs.setRevealPegs()
ShowCommand(line, reveal) == IF line = SHOW THEN TRUE ELSE reveal

\* playRound up to its loop: the board is printed, currGuessNum = 1, and the
\* first test of the loop (on a finished game the loop is not entered and
\* playRound returns)
PlayRoundEnter ==
    /\ pc \in {"constructed", "returned"}
    /\ board' = BoardStr(revealPegs, targetPegs, guesses)
    /\ currGuessNum' = 1
    /\ raised' = "None"
    /\ pc' = IF LoopGuard(isDone) THEN "playing" ELSE "returned"
    /\ UNCHANGED <<targetPegs, revealPegs, guesses, isDone, userInput, message, hintFor>>

\* getPlayerGuess, one turn of its loop on a line that gives no pegs (None or
\* the empty list): SHOW reveals the secret, and the player is asked again
RePrompt(raw) ==
    /\ pc = "playing"
    /\ ~Truthy(getPegsFromGuess(ReadInput(raw)))
    /\ userInput' = ReadInput(raw)
    /\ revealPegs' = ShowCommand(ReadInput(raw), revealPegs)
    /\ UNCHANGED <<targetPegs, guesses, isDone, currGuessNum, message, raised, hintFor,
                   board, pc>>

\* one turn of playRound's loop on a line that gives pegs: getPlayerGuess
\* returns them, the guess slot is filled and scored, the verdict is taken and
\* the board is printed (IndexError from calcHints leaves playRound at once)
PlayTurn(raw) ==
    /\ pc = "playing"
    /\ Truthy(getPegsFromGuess(ReadInput(raw)))
    /\ HasIndex(guesses, SlotIndex(currGuessNum))
    /\ userInput' = ReadInput(raw)
    /\ LET line == ReadInput(raw)
           shown == ShowCommand(line, revealPegs)
           slot == SlotIndex(currGuessNum)
           r == calcHints(setPegs(guesses[slot], getPegsFromGuess(line).pegs), targetPegs)
       IN  /\ guesses' = [guesses EXCEPT ![slot] = r.guess]
           /\ targetPegs' = r.target
           /\ hintFor' = r.hintFor
           /\ IF r.err
              THEN /\ raised' = "IndexError"
                   /\ pc' = "crashed"
                   /\ revealPegs' = shown
                   /\ UNCHANGED <<currGuessNum, isDone, message, board>>
              ELSE /\ currGuessNum' = currGuessNum + 1
                   /\ raised' = "None"
                   /\ LET verdict == Verdict(isCorrect(r.guess), currGuessNum + 1)
                      IN  IF verdict = "won"
                          THEN /\ revealPegs' = TRUE
                               /\ message' = WonMessage
                               /\ isDone' = TRUE
                          ELSE IF verdict = "lost"
                          THEN /\ revealPegs' = TRUE
                               /\ isDone' = TRUE
                               /\ message' = LostMessage
                          ELSE /\ revealPegs' = shown
                               /\ UNCHANGED <<isDone, message>>
                   /\ board' = BoardStr(revealPegs', targetPegs', guesses')
                   /\ pc' = IF LoopGuard(isDone') THEN "playing" ELSE "returned"

Next ==
    \/ PlayRoundEnter
    \/ \E raw \in RawInputs : RePrompt(raw)
    \/ \E raw \in RawInputs : PlayTurn(raw)

Spec == Init /\ [][Next]_vars

-----------------------------------------------------------------------------
(* SpecFour: the game with a player who keeps supplying guesses of N pegs *)

\* the lines that give N pegs
FourInputs ==
    {raw \in RawInputs :
        /\ Truthy(getPegsFromGuess(ReadInput(raw)))
        /\ Len(ReadInput(raw)) = N}

\* the lines that give no pegs
RejectedInputs == {raw \in RawInputs : ~Truthy(getPegsFromGuess(ReadInput(raw)))}

\* the main program: playRound is called once the game is constructed
StartRound == pc = "constructed" /\ PlayRoundEnter

\* the player answers a prompt with a guess of N pegs
FourTokenTurn == \E raw \in FourInputs : PlayTurn(raw)

NextFour ==
    \/ PlayRoundEnter
    \/ \E raw \in RejectedInputs : RePrompt(raw)
    \/ FourTokenTurn

\* the prompt is waiting and a slot is left: FourTokenTurn can be taken (its
\* guard; the step always changes currGuessNum)
FourTokenPrompt ==
    /\ pc = "playing"
    /\ HasIndex(guesses, SlotIndex(currGuessNum))
    /\ FourInputs # {}

\* weak fairness of FourTokenTurn, WF_vars(FourTokenTurn), with
\* ENABLED <<FourTokenTurn>>_vars written as the state predicate FourTokenPrompt
FourTokenFair == []<>(~FourTokenPrompt) \/ []<><<FourTokenTurn>>_vars

\* the program starts the round, and the player, asked again and again,
\* sooner or later supplies a guess of N pegs
SpecFour == Init /\ [][NextFour]_vars /\ WF_vars(StartRound) /\ FourTokenFair

-----------------------------------------------------------------------------
(* What the claims speak of *)

\* Feedback.exact of a hint list
ExactCount(hints) == Cardinality({k \in 1..Len(hints) : hints[k] = RightColorRightPlace})

\* Feedback.colorOnly of a hint list
ColourOnlyCount(hints) == Cardinality({k \in 1..Len(hints) : hints[k] = RightColorWrongPlace})

\* the six colours
AllPegs == {getPeg(pegLetters[k]) : k \in 1..Len(pegLetters)}

\* the positions where guess and secret agree
ExactPositions(pegs, target) ==
    {k \in 1..Len(pegs) : k <= Len(target) /\ pegs[k] = target[k]}

\* how many of the positions of list outside skip hold colour c
CountOutside(list, c, skip) == Cardinality({k \in 1..Len(list) : k \notin skip /\ list[k] = c})

Smaller(a, b) == IF a < b THEN a ELSE b

\* the colour matches left once the positions of skip are set aside, summed
\* over the first k colours of pegLetters
RECURSIVE OverlapUpTo(_, _, _, _)
OverlapUpTo(pegs, target, skip, k) ==
    IF k = 0 THEN 0
    ELSE LET c == getPeg(pegLetters[k])
         IN  Smaller(CountOutside(target, c, skip), CountOutside(pegs, c, skip))
               + OverlapUpTo(pegs, target, skip, k - 1)

\* the colour matches left once the exact matches are set aside
ColourOverlap(pegs, target) ==
    OverlapUpTo(pegs, target, ExactPositions(pegs, target), Len(pegLetters))

\* the guess SpecScore scored
Scored == pc = "scored" /\ raised = "None"
TheGuess == guesses[1]

PegsOf(line) == getPegsFromGuess(line).pegs

-----------------------------------------------------------------------------
(* C1 *)

\* C1: for every secret and guess of N pegs, calcHints gives as many
\* RightColorRightPlace hints as there are positions where guess and secret
\* agree, and as many RightColorWrongPlace hints as the sum over the colours
\* of the smaller of the colour's counts in secret and guess outside those
\* positions.
C1_HintCounts ==
    (pc = "scored") =>
        /\ raised = "None"
        /\ ExactCount(TheGuess.hints)
             = Cardinality(ExactPositions(TheGuess.pegs, targetPegs))
        /\ ColourOnlyCount(TheGuess.hints) = ColourOverlap(TheGuess.pegs, targetPegs)
        /\ Len(TheGuess.hints)
             = ExactCount(TheGuess.hints) + ColourOnlyCount(TheGuess.hints)

\* a scored guess with one exact match, two colour-only matches, and a colour
\* it holds more often than the secret does
C1_Witness ==
    /\ Scored
    /\ Len(TheGuess.pegs) = N /\ Len(targetPegs) = N
    /\ ExactCount(TheGuess.hints) = 1
    /\ ColourOnlyCount(TheGuess.hints) = 2
    /\ \E c \in AllPegs :
          /\ CountOutside(targetPegs, c, {}) > 0
          /\ CountOutside(TheGuess.pegs, c, {}) > CountOutside(targetPegs, c, {})

-----------------------------------------------------------------------------
(* C2 *)

\* C2: a scored guess never carries more than N hints: no guess position gets
\* more than one hint and no secret position gives more than one.
C2_AtMostNHints ==
    \A k \in 1..Len(guesses) :
        /\ Len(guesses[k].hints) <= N
        /\ (pc = "scored" =>
              /\ Len(hintFor) = Len(guesses[k].hints)
              /\ \A a, b \in 1..Len(hintFor) :
                    (hintFor[a].guess = hintFor[b].guess
                       \/ hintFor[a].target = hintFor[b].target) => a = b)

\* a scored guess with exactly N hints of both kinds
C2_Witness ==
    /\ Scored
    /\ Len(TheGuess.hints) = N
    /\ ExactCount(TheGuess.hints) > 0
    /\ ColourOnlyCount(TheGuess.hints) > 0

-----------------------------------------------------------------------------
(* C7 *)

\* C7: a guess that equals the secret position by position scores N exact
\* hints and no colour-only hint.
C7_EqualGuess ==
    (pc = "scored" /\ TheGuess.pegs = targetPegs) =>
        /\ raised = "None"
        /\ ExactCount(TheGuess.hints) = N
        /\ ColourOnlyCount(TheGuess.hints) = 0
        /\ Len(TheGuess.hints) = N

\* the guess equals a secret that repeats a colour, and has been scored
C7_Witness ==
    /\ Scored
    /\ TheGuess.pegs = targetPegs
    /\ Len(targetPegs) = N
    /\ targetPegs[1] = targetPegs[3]
    /\ targetPegs[1] # targetPegs[2]
    /\ Len(TheGuess.hints) = N

-----------------------------------------------------------------------------
(* C8 *)

\* the hints the guess pegs of colour c got
HintsForColour(c) ==
    Cardinality({k \in 1..Len(hintFor) : TheGuess.pegs[hintFor[k].guess] = c})

\* C8: for every colour, the guess pegs of that colour get no more hints than
\* the secret has pegs of the colour; secret Red Red Blue Blue with guess
\* Red Red Red Red gives two exact hints and no colour-only hint.
C8_DuplicateCap ==
    (pc = "scored") =>
        /\ Len(hintFor) = Len(TheGuess.hints)
        /\ \A c \in AllPegs : HintsForColour(c) <= CountOutside(targetPegs, c, {})
        /\ (targetPegs = PegsOf(<<"R", "R", "U", "U">>)
              /\ TheGuess.pegs = PegsOf(<<"R", "R", "R", "R">>)) =>
                 /\ ExactCount(TheGuess.hints) = 2
                 /\ ColourOnlyCount(TheGuess.hints) = 0

\* secret Red Red Blue Blue, guess Red Red Red Red, scored
C8_Witness ==
    /\ Scored
    /\ targetPegs = <<"Red", "Red", "Blue", "Blue">>
    /\ TheGuess.pegs = <<"Red", "Red", "Red", "Red">>
    /\ Len(TheGuess.hints) = 2

-----------------------------------------------------------------------------
(* C9 *)

Colours(list) == {list[k] : k \in 1..Len(list)}

\* C9: a guess that shares no colour with the secret gets no hint at all.
C9_NoSharedColour ==
    (pc = "scored" /\ Colours(TheGuess.pegs) \cap Colours(targetPegs) = {}) =>
        /\ raised = "None"
        /\ TheGuess.hints = <<>>

\* a scored guess of two colours against a secret of two other colours
C9_Witness ==
    /\ Scored
    /\ Colours(TheGuess.pegs) \cap Colours(targetPegs) = {}
    /\ Cardinality(Colours(TheGuess.pegs)) = 2
    /\ Cardinality(Colours(targetPegs)) = 2
    /\ TheGuess.hints = <<>>

-----------------------------------------------------------------------------
(* C10 *)

\* the guess holds every colour as often as the secret does
Rearrangement(pegs, target) ==
    /\ Len(pegs) = Len(target)
    /\ \A c \in AllPegs : CountOutside(pegs, c, {}) = CountOutside(target, c, {})

\* C10: a guess that rearranges the secret's pegs gets N hints in all; secret
\* Red Blue Green Yellow with guess Blue Red Yellow Green gets no exact hint
\* and four colour-only hints.
C10_Rearrangement ==
    (pc = "scored" /\ Rearrangement(TheGuess.pegs, targetPegs)) =>
        /\ raised = "None"
        /\ ExactCount(TheGuess.hints) + ColourOnlyCount(TheGuess.hints) = N
        /\ (targetPegs = PegsOf(<<"R", "U", "G", "Y">>)
              /\ TheGuess.pegs = PegsOf(<<"U", "R", "Y", "G">>)) =>
                 /\ ExactCount(TheGuess.hints) = 0
                 /\ ColourOnlyCount(TheGuess.hints) = 4

\* secret Red Blue Green Yellow, guess Blue Red Yellow Green, scored
C10_Witness ==
    /\ Scored
    /\ targetPegs = <<"Red", "Blue", "Green", "Yellow">>
    /\ TheGuess.pegs = <<"Blue", "Red", "Yellow", "Green">>
    /\ ColourOnlyCount(TheGuess.hints) = 4

-----------------------------------------------------------------------------
(* The round, as the claims name its states *)

Won == isDone /\ message = WonMessage
Lost == isDone /\ message = LostMessage
InProgress == ~isDone

\* the guess slots that hold pegs
Filled == {k \in 1..Len(guesses) : guesses[k].pegs # <<>>}

\* a step of the prompt loop that read a line of peg letters only, not N of them
ReadsWrongLength ==
    /\ pc = "playing"
    /\ Truthy(getPegsFromGuess(userInput'))
    /\ Len(userInput') # N

\* a step of playRound's loop that scored a guess to the end and counted it
RecordsGuess ==
    /\ pc = "playing"
    /\ currGuessNum' = currGuessNum + 1

-----------------------------------------------------------------------------
(* C3 *)

\* C3: a guess of valid colour codes whose length is not N is rejected and
\* changes nothing: no slot is filled, no hint is added, the guess counter
\* does not advance, and the round state and the reveal flag stay.
C3_WrongLengthRejected ==
    [][ReadsWrongLength =>
          /\ guesses' = guesses
          /\ currGuessNum' = currGuessNum
          /\ isDone' = isDone
          /\ message' = message
          /\ revealPegs' = revealPegs
          /\ pc' = "playing"]_vars

-----------------------------------------------------------------------------
(* C4 *)

\* C4: whatever its number k in 1..12, a guess that is scored with N exact
\* hints makes the round Won on that very turn: isDone and the reveal flag
\* are set, the winning verdict is printed and playRound returns.  A correct
\* twelfth guess wins, it does not lose.
C4_ExactGuessWins ==
    [][(RecordsGuess
          /\ ExactCount(guesses'[SlotIndex(currGuessNum)].hints) = N) =>
          /\ currGuessNum \in 1..totalGuesses
          /\ isDone'
          /\ revealPegs'
          /\ message' = WonMessage
          /\ pc' = "returned"]_vars

\* the twelfth guess had N exact hints and the round is Won
C4_Witness ==
    /\ pc = "returned"
    /\ currGuessNum = totalGuesses + 1
    /\ Filled = 1..totalGuesses
    /\ ExactCount(guesses[1].hints) = N
    /\ \A k \in 2..totalGuesses : ExactCount(guesses[k].hints) < N
    /\ Won
    /\ revealPegs

-----------------------------------------------------------------------------
(* C5 *)

\* C5: a round that has twelve recorded guesses, none of them with N exact
\* hints, is Lost and its reveal flag is set.
C5_TwelveMissesLose ==
    (/\ pc \in {"playing", "returned"}
     /\ Filled = 1..totalGuesses
     /\ \A k \in 1..totalGuesses : ExactCount(guesses[k].hints) < N)
       => (Lost /\ revealPegs)

-----------------------------------------------------------------------------
(* C6 *)

-----------------------------------------------------------------------------
(* C11 *)

\* the guess counter, as the history shows it
GuessCount == Cardinality(Filled)

\* C11: the SHOW command sets the reveal flag and alters nothing else of the
\* round: isDone, the verdict, the guess counter and every slot's pegs and
\* hints are as before, and the player is asked again (no guess is consumed).
C11_ShowOnlyReveals ==
    [][(pc = "playing" /\ userInput' = SHOW) =>
          /\ revealPegs'
          /\ guesses' = guesses
          /\ currGuessNum' = currGuessNum
          /\ isDone' = isDone
          /\ message' = message
          /\ targetPegs' = targetPegs
          /\ raised' = "None"
          /\ pc' = "playing"]_vars

\* SHOW was the last line read, in a round that goes on with two guesses made
C11_Witness ==
    /\ pc = "playing"
    /\ userInput = SHOW
    /\ revealPegs
    /\ ~isDone
    /\ GuessCount = 2
    /\ currGuessNum = 3

-----------------------------------------------------------------------------
(* C12 *)

\* C12: the secret has exactly N pegs and no step changes it: not a guess, not
\* a rejected line, not SHOW, not a scoring, not playRound driven again.
C12_SecretFixed ==
    [][/\ Len(targetPegs) = N
       /\ \A k \in 1..N : targetPegs[k] \in AllPegs
       /\ targetPegs' = targetPegs]_vars

\* the round goes on after guesses that took hints, a rejected line and SHOW
C12_Witness ==
    /\ pc = "playing"
    /\ GuessCount >= 2
    /\ revealPegs
    /\ hintFor # <<>>
    /\ userInput = <<"R", "X", "G", "Y">>
    /\ Len(targetPegs) = N

-----------------------------------------------------------------------------
(* C13 *)

\* a step of playRound's loop that scored a guess whose length is not the secret's
ScoresOtherLength ==
    /\ pc = "playing"
    /\ Truthy(getPegsFromGuess(userInput'))
    /\ Len(userInput') # Len(targetPegs)

\* C13: scoring a guess against a secret of another length fails with
\* LengthMismatch before any scoring: the guess gets no hint and no peg is
\* marked as consumed.
C13_LengthMismatchGuarded ==
    [][ScoresOtherLength =>
          /\ raised' = "LengthMismatch"
          /\ hintFor' = <<>>
          /\ guesses'[SlotIndex(currGuessNum)].hints = <<>>]_vars

-----------------------------------------------------------------------------
(* C14 *)

\* the list holds a peg's symbol
ShowsPeg(text) == \E k \in 1..Len(text) : text[k] = PegSymbol

\* the list holds the placeholder
ShowsPlaceholder(text) == \E k \in 1..Len(text) : text[k] = SecretPlaceholder

\* C14: while the reveal flag is false, the board printed last shows the
\* placeholder in the secret's row and none of the secret's pegs, and so does
\* the board as it would be printed now.
C14_HiddenUntilRevealed ==
    ~revealPegs =>
        /\ ~ShowsPeg(board.secret)
        /\ (board # NoBoard => ShowsPlaceholder(board.secret))
        /\ ~ShowsPeg(BoardStr(revealPegs, targetPegs, guesses).secret)
        /\ ShowsPlaceholder(BoardStr(revealPegs, targetPegs, guesses).secret)

\* the flag is false and a board with two guesses on it has been printed
C14_Witness ==
    /\ pc = "playing"
    /\ ~revealPegs
    /\ GuessCount = 2
    /\ board = BoardStr(FALSE, targetPegs, guesses)
    /\ ShowsPlaceholder(board.secret)
    /\ ShowsPeg(board.rows[totalGuesses].pegs)

-----------------------------------------------------------------------------
(* C15 *)

\* the guess recorded last: slots are filled from the end of the list
LastRecorded == guesses[CHOOSE k \in Filled : \A j \in Filled : k <= j]

\* C15: in every Won state the guess recorded last has exactly N pegs, each
\* equal to the secret's peg at the same position.
C15_WonOnlyOnFullMatch ==
    Won =>
        /\ Filled # {}
        /\ Len(LastRecorded.pegs) = N
        /\ \A k \in 1..N : LastRecorded.pegs[k] = targetPegs[k]

-----------------------------------------------------------------------------
(* C16 *)

\* the slots are numbered totalGuesses down to 1; with k guesses made, the
\* slots numbered 1..k hold pegs and the others hold neither pegs nor hints;
\* while the round is played the counter is one ahead of the history
HistoryShape ==
    /\ Len(guesses) = totalGuesses
    /\ \A k \in 1..Len(guesses) : guesses[k].number = totalGuesses - k + 1
    /\ {guesses[k].number : k \in Filled} = 1..GuessCount
    /\ \A k \in 1..Len(guesses) :
          k \notin Filled => (guesses[k].pegs = <<>> /\ guesses[k].hints = <<>>)
    /\ (pc = "playing" => currGuessNum = GuessCount + 1)

\* C16: the history is append-only with ordinals from 1: the k-th guess goes
\* to the slot numbered k, the slots numbered above the guesses made are
\* empty, and no step changes or empties a slot that holds a guess.
C16_AppendOnlyHistory ==
    [][/\ HistoryShape
       /\ HistoryShape'
       /\ \A k \in Filled : guesses'[k] = guesses[k]
       /\ Filled \subseteq Filled'
       /\ Cardinality(Filled') <= GuessCount + 1
       /\ (RecordsGuess =>
             \E k \in 1..Len(guesses) :
                /\ guesses[k].number = currGuessNum
                /\ Filled' = Filled \cup {k}
                /\ k \notin Filled
                /\ guesses'[k].pegs = PegsOf(userInput'))]_vars

\* three different guesses made, the round goes on
C16_Witness ==
    /\ pc = "playing"
    /\ GuessCount = 3
    /\ currGuessNum = 4
    /\ guesses[totalGuesses].pegs # guesses[totalGuesses - 1].pegs
    /\ guesses[totalGuesses - 1].pegs # guesses[totalGuesses - 2].pegs
    /\ guesses[totalGuesses - 3].pegs = <<>>

-----------------------------------------------------------------------------
(* C17 *)

\* C17: the number of recorded guesses never exceeds totalGuesses and the
\* slot playRound is about to use is always one of the totalGuesses slots;
\* with a player who keeps supplying guesses of N pegs, the round reaches
\* isDone, with at most totalGuesses guesses recorded.
C17_BudgetAndTermination ==
    /\ [](pc = "playing" =>
            /\ currGuessNum \in 1..totalGuesses
            /\ HasIndex(guesses, SlotIndex(currGuessNum)))
    /\ [](GuessCount <= totalGuesses /\ currGuessNum <= totalGuesses + 1)
    /\ <>isDone
    /\ [](isDone => (pc = "returned" /\ GuessCount \in 1..totalGuesses))

\* the round ended on its twelfth guess
C17_Witness ==
    /\ isDone
    /\ pc = "returned"
    /\ GuessCount = totalGuesses
    /\ currGuessNum = totalGuesses + 1
    /\ Lost
    /\ \A k \in 1..totalGuesses : Len(guesses[k].pegs) = N

-----------------------------------------------------------------------------
(* C18 *)

\* a line, as getPegsFromGuess gets it, that is empty or holds a character
\* that is no peg letter
Unparseable(line) == line = <<>> \/ \E k \in 1..Len(line) : getPeg(line[k]) = None

\* C18: a line that is empty or holds an unknown colour letter gives no pegs
\* and is answered by asking again: no guess is consumed, and the guess
\* history, the guess counter and the round's state stay as they were.
C18_UnparseableReprompted ==
    [][(pc = "playing" /\ Unparseable(userInput')) =>
          /\ ~Truthy(getPegsFromGuess(userInput'))
          /\ guesses' = guesses
          /\ currGuessNum' = currGuessNum
          /\ isDone' = isDone
          /\ message' = message
          /\ targetPegs' = targetPegs
          /\ raised' = "None"
          /\ pc' = "playing"]_vars

\* after the first guess was recorded, an empty line was read and the prompt
\* is up again
C18_Witness ==
    /\ pc = "playing"
    /\ userInput = <<>>
    /\ GuessCount = 1
    /\ currGuessNum = 2
    /\ InProgress

-----------------------------------------------------------------------------
(* C19 *)

\* two reorderings of N positions, the swap of the first two and the shift
\* of all by one; every reordering is a chain of these two
Reorderings ==
    {[i \in 1..N |-> IF i = 1 THEN 2 ELSE IF i = 2 THEN 1 ELSE i],
     [i \in 1..N |-> IF i = N THEN 1 ELSE i + 1]}

\* the pegs of a list in the order p
Permute(pegs, p) == [k \in 1..Len(pegs) |-> pegs[p[k]]]

\* the hints calcHints gives a fresh guess of these pegs against this target
HintsOf(pegs, target) == calcHints(NewGuess(pegs, 0), target).guess.hints

\* C19: whatever secret and guess of N pegs are scored, swapping the first
\* two positions in both, or shifting all positions by one in both, gives the
\* same number of RightColorRightPlace hints and the same number of
\* RightColorWrongPlace hints.  Every secret and every guess is scored, so the
\* counts are the same along any chain of the two, that is under every
\* reordering of the positions.
C19_PermutationInvariant ==
    Scored =>
        LET exact == ExactCount(TheGuess.hints)
            colourOnly == ColourOnlyCount(TheGuess.hints)
        IN  \A p \in Reorderings :
                LET hints == HintsOf(Permute(TheGuess.pegs, p), Permute(targetPegs, p))
                IN  /\ ExactCount(hints) = exact
                    /\ ColourOnlyCount(hints) = colourOnly

\* secret Red Red Blue Green, guess Blue Yellow Red Green: one exact hint, and
\* the guess's Red, with two Reds of the secret free, took the first
C19_Witness ==
    /\ Scored
    /\ targetPegs = PegsOf(<<"R", "R", "U", "G">>)
    /\ TheGuess.pegs = PegsOf(<<"U", "Y", "R", "G">>)
    /\ ExactCount(TheGuess.hints) = 1
    /\ ColourOnlyCount(TheGuess.hints) = 2
    /\ \E h \in 1..Len(hintFor) : hintFor[h] = [guess |-> 3, target |-> 1]

-----------------------------------------------------------------------------
(* C20 *)

\* C20: revealPegs is False when the game is constructed; no step sets it
\* back to False; it is True whenever the round is done (won or lost); while
\* the round is not done it becomes True only on reading SHOW, so a guess that
\* does not end the round never sets it.
C20_RevealFlag ==
    [][/\ (pc = "constructed" /\ currGuessNum = 0) => ~revealPegs
       /\ revealPegs => revealPegs'
       /\ isDone' => revealPegs'
       /\ (~revealPegs /\ revealPegs' /\ InProgress') => userInput' = SHOW
       /\ (RecordsGuess /\ InProgress') => revealPegs' = revealPegs]_vars

\* the round goes on after SHOW and a recorded guess: the secret is revealed
\* because of SHOW alone, and the guess read last did not hide it again
C20_Witness ==
    /\ pc = "playing"
    /\ InProgress
    /\ revealPegs
    /\ GuessCount = 2
    /\ userInput # SHOW

====
